---- MODULE Spec2Model ----
(***************************************************************************)
(* Request dispatch of rustless: Api (src/framework/api.rs) and Endpoint   *)
(* (src/framework/endpoint.rs).  A tree of Api nodes and Endpoint leaves   *)
(* is assembled by the builder methods; `call` parses the request into     *)
(* params, descends the tree (api_call / call_handlers), runs the endpoint *)
(* pipeline (call_decode) and renders a failure with handle_error.         *)
(***************************************************************************)
EXTENDS Integers, Sequences, FiniteSets, TLC

\* ------------------------------------------------------------------ bounds
\* Custom error formatters the builder registers on the top-level Api.
MaxFormatters == 2

\* ------------------------------------------------------- strings and paths
\* A Rust string is a sequence of one-character strings.
S_api == <<"a", "p", "i">>
S_v1 == <<"v", "1">>
S_x == <<"x">>
S_q == <<"q">>
S_b == <<"b">>

\* str::starts_with
starts_with(s, p) == Len(p) <= Len(s) /\ SubSeq(s, 1, Len(p)) = p

\* &s[n..]
slice_from(s, n) == SubSeq(s, n + 1, Len(s))

RECURSIVE SplitFrom(_, _, _)
SplitFrom(s, i, cur) ==
    IF i > Len(s)
    THEN (IF cur = <<>> THEN <<>> ELSE <<cur>>)
    ELSE IF s[i] = "/"
         THEN (IF cur = <<>>
               THEN SplitFrom(s, i + 1, <<>>)
               ELSE <<cur>> \o SplitFrom(s, i + 1, <<>>))
         ELSE SplitFrom(s, i + 1, Append(cur, s[i]))

\* The non-empty segments of a path, in order.
Segments(s) == SplitFrom(s, 1, <<>>)

RECURSIVE Join(_)
Join(segs) ==
    IF segs = <<>> THEN <<>>
    ELSE IF Len(segs) = 1 THEN segs[1]
    ELSE segs[1] \o <<"/">> \o Join(Tail(segs))

\* path::normalize: strips leading/trailing separators, collapses redundant ones.
normalize(s) == Join(Segments(s))

\* ------------------------------------------------------------- JSON values
JStr(s) == [t |-> "str", v |-> s]
JNum(s) == [t |-> "num", v |-> s]
is_string(obj) == obj.t = "str"

\* An empty json::Object (BTreeMap::new()).
EmptyObject == [k \in {} |-> JStr(<<>>)]

Obj1(k, v) == [x \in {k} |-> v]
Obj2(k1, v1, k2, v2) == [x \in {k1, k2} |-> IF x = k1 THEN v1 ELSE v2]

\* The merge loop with the contains_key test dropped (insert always).
MergeOverwrite(params, obj) ==
    [k \in DOMAIN params \cup DOMAIN obj |->
        IF k \in DOMAIN obj THEN obj[k] ELSE params[k]]

\* The loop `for (key, value) in obj { if !params.contains_key(key) { params.insert(key, value) } }`
\* of parse_query, parse_json_body and parse_urlencoded_body.
MergeInto(params, obj) ==
    [k \in DOMAIN params \cup DOMAIN obj |->
        IF k \in DOMAIN params THEN params[k] ELSE obj[k]]

\* ------------------------------------------------------------------ errors
NotMatch == "NotMatch"
NotAcceptable == "NotAcceptable"
QueryString == "QueryString"
BodyInvalidRequestBody == "Body(Invalid request body)"
BodyInvalidUtf8 == "Body(Invalid UTF-8 sequence)"
BodyInvalidJson == "Body(Invalid JSON)"
BodyInvalidEncoded == "Body(Invalid encoded data)"
Validation == "Validation"
UserError == "UserError"

\* backend::Response: who produced it (an endpoint's handler, or the error
\* formatter `id` of the custom or default list), and for a rendered error the
\* error and the media format it was rendered for.
Response(by, id, err, fmt) == [by |-> by, id |-> id, err |-> err, fmt |-> fmt]
NoResp == Response("", 0, "", "")

\* Result values: Ok(v) and Err(e); OkUnit is Ok(()).
Ok(v) == [ok |-> TRUE, val |-> v, err |-> ""]
Err(e) == [ok |-> FALSE, val |-> NoResp, err |-> e]
OkUnit == Ok(NoResp)
NoResult == [ok |-> FALSE, val |-> NoResp, err |-> "-"]

\* Option<String>
NoneStr == [some |-> FALSE, v |-> <<>>]
SomeStr(s) == [some |-> TRUE, v |-> s]

\* ------------------------------------------------------------------- media
\* A mime of the Accept header: application/vnd.<vendor>.<version>+<format>
\* when vendor is not "", application/<format> otherwise.
Mime(vendor, version, format) ==
    [vendor |-> vendor, version |-> version, format |-> format]

\* Media::default()
MediaDefault == [vendor |-> "", version |-> NoneStr, format |-> "json"]

\* Media::from_vendor: Some(media) for a vendor-tree mime, None otherwise.
from_vendor(mime) ==
    [some |-> mime.vendor # "",
     media |-> [vendor |-> mime.vendor,
                version |-> IF mime.version = <<>> THEN NoneStr
                            ELSE SomeStr(mime.version),
                format |-> mime.format]]

\* Media::from_mime
from_mime(mime) ==
    IF from_vendor(mime).some THEN from_vendor(mime).media
    ELSE [vendor |-> "", version |-> NoneStr, format |-> mime.format]

NoAccept == [some |-> FALSE, quals |-> <<>>]
Accept(quals) == [some |-> TRUE, quals |-> quals]

\* extract_media yielding None when there is no accept preference.
extract_media_none_without_preference(rq) ==
    IF rq.accept.some /\ rq.accept.quals # <<>>
    THEN [some |-> TRUE, media |-> from_mime(rq.accept.quals[1])]
    ELSE [some |-> FALSE, media |-> MediaDefault]

\* Api::extract_media: always Some(..).
extract_media(rq) ==
    IF rq.accept.some /\ rq.accept.quals # <<>>
    THEN [some |-> TRUE, media |-> from_mime(rq.accept.quals[1])]
    ELSE [some |-> TRUE, media |-> MediaDefault]

\* --------------------------------------------------------- request parsing
\* The outcome of the external parsers on the request's text:
\*   query: [some, ok, obj]      url().query() and queryst::parse of it
\*   body:  [read, empty, json, form]
\*          read  : "ok" | "ioerr" | "badutf8"   (read_to_end, String::from_utf8)
\*          json  : [ok, isobj, obj]             (parse::<json::Json>, as_object)
\*          form  : [ok, obj]                    (queryst::parse)
NoQuery == [some |-> FALSE, ok |-> TRUE, obj |-> EmptyObject]
BadQuery == [some |-> TRUE, ok |-> FALSE, obj |-> EmptyObject]
Query(obj) == [some |-> TRUE, ok |-> TRUE, obj |-> obj]

Body(read, empty, json, form) ==
    [read |-> read, empty |-> empty, json |-> json, form |-> form]
ParseErr == [ok |-> FALSE, isobj |-> FALSE, obj |-> EmptyObject]
ParsedObj(obj) == [ok |-> TRUE, isobj |-> TRUE, obj |-> obj]
ParsedNonObj == [ok |-> TRUE, isobj |-> FALSE, obj |-> EmptyObject]

\* What a parse step hands back: the result, the params, whether it panicked
\* (unwrap of None), and the reads it made of the request, in order.
Parsed(res, params, panic, log) ==
    [res |-> res, params |-> params, panic |-> panic, log |-> log]

\* Api::parse_query
parse_query(query, params) ==
    IF query.ok
    THEN Parsed(OkUnit, MergeInto(params, query.obj), FALSE, <<"query">>)
    ELSE Parsed(Err(QueryString), params, FALSE, <<"query">>)

\* Api::parse_utf8
parse_utf8(body) ==
    IF body.read = "ioerr" THEN Err(BodyInvalidRequestBody)
    ELSE IF body.read = "badutf8" THEN Err(BodyInvalidUtf8)
    ELSE OkUnit

\* Api::parse_json_body
parse_json_body(body, params) ==
    IF ~parse_utf8(body).ok
    THEN Parsed(parse_utf8(body), params, FALSE, <<"body">>)
    ELSE IF body.empty
    THEN Parsed(OkUnit, params, FALSE, <<"body">>)
    ELSE IF ~body.json.ok
    THEN Parsed(Err(BodyInvalidJson), params, FALSE, <<"body", "json">>)
    ELSE IF ~body.json.isobj
    THEN Parsed(NoResult, params, TRUE, <<"body", "json">>)
    ELSE Parsed(OkUnit, MergeInto(params, body.json.obj), FALSE, <<"body", "json">>)

\* Api::parse_urlencoded_body
parse_urlencoded_body(body, params) ==
    IF ~parse_utf8(body).ok
    THEN Parsed(parse_utf8(body), params, FALSE, <<"body">>)
    ELSE IF body.empty
    THEN Parsed(OkUnit, params, FALSE, <<"body">>)
    ELSE IF ~body.form.ok
    THEN Parsed(Err(BodyInvalidEncoded), params, FALSE, <<"body", "form">>)
    ELSE Parsed(OkUnit, MergeInto(params, body.form.obj), FALSE, <<"body", "form">>)

\* The body branch of parse_request: is_json_body, else is_urlencoded_body.
parse_body(rq, params) ==
    IF rq.body_type = "json" THEN parse_json_body(rq.body, params)
    ELSE IF rq.body_type = "urlencoded" THEN parse_urlencoded_body(rq.body, params)
    ELSE Parsed(OkUnit, params, FALSE, <<>>)

\* parse_request reading the body before the query string.
parse_request_body_first(rq, params) ==
    LET b == parse_body(rq, params)
    IN  IF b.panic \/ ~b.res.ok THEN b
        ELSE LET q == IF rq.query.some THEN parse_query(rq.query, b.params)
                      ELSE Parsed(OkUnit, b.params, FALSE, <<>>)
             IN  Parsed(q.res, q.params, FALSE, b.log \o q.log)

\* Api::parse_request
parse_request(rq, params) ==
    LET q == IF rq.query.some THEN parse_query(rq.query, params)
             ELSE Parsed(OkUnit, params, FALSE, <<>>)
    IN  IF ~q.res.ok THEN q
        ELSE LET b == parse_body(rq, q.params)
             IN  Parsed(b.res, b.params, b.panic, q.log \o b.log)

\* ---------------------------------------------------------- route patterns
\* A compiled path::Path: literal segments and named captures.
Lit(s) == [capture |-> FALSE, name |-> "", lit |-> s]
Cap(name) == [capture |-> TRUE, name |-> name, lit |-> <<>>]

CaptureIdx(pattern) == {i \in 1..Len(pattern) : pattern[i].capture}

\* Path::is_match with a full match required: Some(captures) or None.
is_match(pattern, rest_path) ==
    LET segs == Segments(rest_path)
    IN  IF /\ Len(segs) = Len(pattern)
           /\ \A i \in 1..Len(pattern) :
                  pattern[i].capture \/ pattern[i].lit = segs[i]
        THEN [some |-> TRUE,
              captures |->
                  [k \in {pattern[i].name : i \in CaptureIdx(pattern)} |->
                      JStr(segs[CHOOSE i \in CaptureIdx(pattern) :
                                    pattern[i].name = k])]]
        ELSE [some |-> FALSE, captures |-> EmptyObject]

\* apply_captures inserting every capture, present or not.
apply_captures_overwrite(params, captures) ==
    [k \in DOMAIN params \cup DOMAIN captures |->
        IF k \in DOMAIN captures THEN captures[k] ELSE params[k]]

\* Path::apply_captures: writes a capture only for a key not already present.
apply_captures(params, captures) ==
    [k \in DOMAIN params \cup DOMAIN captures |->
        IF k \in DOMAIN params THEN params[k] ELSE captures[k]]

\* ----------------------------------------------------------- configuration
\* Option<Version>
NoVersion == [some |-> FALSE, version |-> <<>>, versioning |-> "", arg |-> ""]
SomeVersion(version, versioning, arg) ==
    [some |-> TRUE, version |-> version, versioning |-> versioning, arg |-> arg]

\* An error formatter closure: `id` names it, `kind` is what it does for any
\* (error, media): "respond" yields Some(response), "decline" yields None.
Formatter(id, kind) == [id |-> id, kind |-> kind]
FormatterKinds == {"decline", "respond"}

\* formatters::create_default_error_formatter(): always produces a response.
create_default_error_formatter == Formatter(1, "respond")

\* Api::new with an empty default-formatter list.
Api_new_no_default ==
    [kind |-> "api", version |-> NoVersion, prefix |-> NoneStr,
     handlers |-> <<>>, before |-> <<>>, before_validation |-> <<>>,
     after_validation |-> <<>>, after |-> <<>>,
     error_formatters |-> <<>>, default_error_formatters |-> <<>>]

\* Api::new
Api_new ==
    [kind |-> "api", version |-> NoVersion, prefix |-> NoneStr,
     handlers |-> <<>>, before |-> <<>>, before_validation |-> <<>>,
     after_validation |-> <<>>, after |-> <<>>,
     error_formatters |-> <<>>,
     default_error_formatters |-> <<create_default_error_formatter>>]

\* Api::version
Api_version(a, version, versioning, arg) ==
    [a EXCEPT !.version = SomeVersion(version, versioning, arg)]

\* Api::prefix
Api_prefix(a, prefix) == [a EXCEPT !.prefix = SomeStr(prefix)]

\* Api::error_formatter
Api_error_formatter(a, kind) ==
    [a EXCEPT !.error_formatters =
        Append(@, Formatter(Len(a.error_formatters) + 1, kind))]

\* Registration of children and of the four callback lists (Nesting).
Api_nest(a, handlers, before, before_validation, after_validation, after) ==
    [a EXCEPT !.handlers = handlers, !.before = before,
              !.before_validation = before_validation,
              !.after_validation = after_validation, !.after = after]

\* Endpoint::build: new(method, path), params(..) when a schema is given, handle(..).
Endpoint_build(method, path, coercer) ==
    [kind |-> "endpoint", method |-> method, path |-> path,
     coercer |-> coercer, handler |-> TRUE]

\* ------------------------------------------------------------------- trees
\* Node 1 is the top-level Api; `handlers` holds the children's node ids.
Root == 1

\* Callbacks are named; a parent's callbacks of one stage are a list of names.
TreeFlat ==
    [n \in 1..3 |->
        CASE n = 1 -> Api_nest(Api_new, <<2, 3>>,
                               <<"r_b1", "r_b2">>, <<"r_bv">>, <<"r_av">>, <<"r_a">>)
          [] n = 2 -> Endpoint_build("GET", <<Lit(S_x)>>, TRUE)
          [] n = 3 -> Endpoint_build("GET", <<Cap("id")>>, FALSE)]

TreeNested ==
    [n \in 1..5 |->
        CASE n = 1 -> Api_nest(Api_new, <<2, 5>>, <<"r_b">>, <<>>, <<>>, <<"r_a">>)
          [] n = 2 -> Api_nest(Api_version(Api_new, S_v1, "Param", "ver"), <<3, 4>>,
                               <<"n_b">>, <<"n_bv">>, <<"n_av">>, <<"n_a1", "n_a2">>)
          [] n = 3 -> Endpoint_build("POST", <<Lit(S_x)>>, TRUE)
          [] n = 4 -> Endpoint_build("GET", <<Lit(S_x)>>, FALSE)
          [] n = 5 -> Endpoint_build("GET", <<Cap("id")>>, FALSE)]

TreeHeader ==
    [n \in 1..5 |->
        CASE n = 1 -> Api_nest(Api_new, <<5, 2, 4>>, <<>>, <<>>, <<>>, <<>>)
          [] n = 2 -> Api_nest(Api_version(Api_new, S_v1, "AcceptHeader", "acme"), <<3>>,
                               <<"n_b">>, <<>>, <<>>, <<>>)
          [] n = 3 -> Endpoint_build("POST", <<Lit(S_x)>>, FALSE)
          [] n = 4 -> Endpoint_build("GET", <<Lit(S_x)>>, FALSE)
          [] n = 5 -> Api_nest(Api_new, <<>>, <<"e_b">>, <<>>, <<>>, <<>>)]

Trees == {TreeFlat, TreeNested, TreeHeader}

\* ---------------------------------------------------------------- requests
Request(method, path, query, body_type, body, accept) ==
    [method |-> method, path |-> path, query |-> query,
     body_type |-> body_type, body |-> body, accept |-> accept]

NoBody == Body("ok", TRUE, ParseErr, ParseErr)
NoRequest == Request("", <<>>, NoQuery, "other", NoBody, NoAccept)

M_acme_v1 == Mime("acme", S_v1, "json")
M_other_v1 == Mime("other", S_v1, "xml")
M_plain == Mime("", <<>>, "xml")

Methods == {"GET", "POST"}
Paths == {S_x, S_api \o <<"/">> \o S_x, S_v1 \o <<"/">> \o S_x,
          S_api \o <<"/">> \o S_v1 \o <<"/">> \o S_x}
Accepts == {NoAccept, Accept(<<M_plain>>), Accept(<<M_other_v1, M_acme_v1>>)}

Queries ==
    {NoQuery, BadQuery, Query(EmptyObject), Query(Obj1("id", JStr(S_q))),
     Query(Obj2("id", JStr(S_q), "ver", JStr(S_v1))),
     Query(Obj1("ver", JNum(<<"1">>)))}
BodyTypes == {"json", "urlencoded", "other"}
Bodies ==
    {Body("ioerr", TRUE, ParseErr, ParseErr),
     Body("badutf8", TRUE, ParseErr, ParseErr),
     NoBody,
     Body("ok", FALSE, ParseErr, ParseErr),
     Body("ok", FALSE, ParsedNonObj, ParseErr),
     Body("ok", FALSE, ParsedObj(Obj2("id", JStr(S_b), "name", JStr(S_b))), ParseErr),
     Body("ok", FALSE, ParseErr, ParsedObj(Obj2("id", JStr(S_b), "ver", JStr(S_b)))),
     Body("ok", FALSE, ParsedObj(Obj1("name", JStr(S_b))),
                       ParsedObj(Obj1("ver", JStr(S_v1))))}

\* The (query, body type, body) triples the dispatch is exercised with: no
\* parameters, query and JSON body sharing a key, a malformed query string,
\* an invalid JSON body, and a JSON body that is no object.
ParseCases ==
    {<<NoQuery, "other", NoBody>>,
     <<Query(Obj2("id", JStr(S_q), "ver", JStr(S_v1))), "json",
       Body("ok", FALSE, ParsedObj(Obj2("id", JStr(S_b), "name", JStr(S_b))), ParseErr)>>,
     <<BadQuery, "json", NoBody>>,
     <<NoQuery, "json", Body("ok", FALSE, ParseErr, ParseErr)>>,
     <<NoQuery, "json", Body("ok", FALSE, ParsedNonObj, ParseErr)>>}

Requests ==
    {Request(m, p, c[1], c[2], c[3], acc) :
        m \in Methods, p \in Paths, c \in ParseCases, acc \in Accepts}

\* Every combination of query, body type and body, on one path.
ParseRequests ==
    {Request("GET", S_x, q, bt, b, NoAccept) :
        q \in Queries, bt \in BodyTypes, b \in Bodies}

\* ------------------------------------------------------------------- state
\* api  : the configured tree, node id -> Api or Endpoint configuration
\* call : the state of one `call`: its position (pc), the request, and the
\*        locals of call / api_call / call_handlers / call_decode / handle_error
\* call2: the state of a second `call` served by the same tree at the same time
VARIABLES api, call, call2

vars == <<api, call, call2>>

\* framework::CallInfo::new(app)
CallInfo_new == [media |-> MediaDefault, parents |-> <<>>]

\* One event of a call: a node passing its checks ("pass"), a child being
\* offered the request ("offer"), a callback / validation / handler running
\* (ev is the stage), an api_call returning ("return").
Ev(ev, node, cb, child, res, val) ==
    [ev |-> ev, node |-> node, cb |-> cb, child |-> child, res |-> res, val |-> val]

ResOf(r) == IF r.ok THEN "ok" ELSE r.err

IdleCall ==
    [pc |-> "idle",
     req |-> NoRequest,
     params |-> EmptyObject,
     parse_result |-> NoResult,
     parse_log |-> <<>>,
     info |-> CallInfo_new,
     frames |-> <<>>,                 \* call_handlers activations: [node, rest_path, idx]
     cur |-> [node |-> 0, rest_path |-> <<>>],   \* the api_call about to run
     client |-> [endpoint |-> 0, media |-> MediaDefault],
     pre_params |-> EmptyObject,      \* params and captures as the last path match
     captures |-> EmptyObject,        \*   found them, before apply_captures
     pos |-> [stage |-> 1, pi |-> 1, ci |-> 1],  \* call_decode's loops
     ret |-> NoResult,                \* the value the last api_call returned
     api_result |-> NoResult,
     err_media |-> MediaDefault,
     fpos |-> [list |-> "custom", i |-> 1],      \* handle_error's loops
     result |-> [ok |-> FALSE, response |-> NoResp, error |-> ""],
     trace |-> <<>>,                  \* every event of the call, in order
     pipe |-> <<>>,                   \* the events of the current call_decode
     fmts |-> <<>>,                   \* the formatters handle_error invoked
     offers |-> <<>>]                 \* what each child was offered: [node, child, rest_path]

Init ==
    /\ api \in Trees
    /\ call = IdleCall
    /\ call2 = IdleCall

\* ----------------------------------------------------------------- builder
\* The builder closure of the top-level Api runs before the first call.
BuildPrefix ==
    /\ call.pc = "idle"
    /\ ~api[Root].prefix.some
    /\ api' = [api EXCEPT ![Root] = Api_prefix(@, S_api)]
    /\ UNCHANGED <<call, call2>>

BuildVersion ==
    /\ call.pc = "idle"
    /\ ~api[Root].version.some
    /\ api' = [api EXCEPT ![Root] = Api_version(@, S_v1, "Path", "")]
    /\ UNCHANGED <<call, call2>>

BuildErrorFormatter ==
    /\ call.pc = "idle"
    /\ Len(api[Root].error_formatters) < MaxFormatters
    /\ \E kind \in FormatterKinds :
           api' = [api EXCEPT ![Root] = Api_error_formatter(@, kind)]
    /\ UNCHANGED <<call, call2>>

\* -------------------------------------------------------------------- call
\* An api_call of `node` returns r to its caller.
Return(s, node, r) ==
    [s EXCEPT !.ret = r, !.pc = "ret",
              !.trace = Append(@, Ev("return", node, "", 0, ResOf(r), r.val))]

\* Api::call dispatching whatever parse_request returned (no and_then).
call_begin_ignores_parse(s, rq) ==
    LET p == parse_request(rq, EmptyObject)
        s1 == [s EXCEPT !.req = rq, !.params = p.params,
                        !.parse_result = p.res, !.parse_log = p.log]
    IN  IF p.panic THEN [s1 EXCEPT !.pc = "panic"]
        ELSE [s1 EXCEPT !.pc = "api_call", !.info = CallInfo_new,
                        !.cur = [node |-> Root, rest_path |-> rq.path]]

\* Api::call up to the dispatch: a fresh params, parse_request, and_then api_call
\* with a fresh CallInfo.
call_begin(s, rq) ==
    LET p == parse_request(rq, EmptyObject)
        s1 == [s EXCEPT !.req = rq, !.params = p.params,
                        !.parse_result = p.res, !.parse_log = p.log]
    IN  IF p.panic THEN [s1 EXCEPT !.pc = "panic"]
        ELSE IF p.res.ok
        THEN [s1 EXCEPT !.pc = "api_call", !.info = CallInfo_new,
                        !.cur = [node |-> Root, rest_path |-> rq.path]]
        ELSE [s1 EXCEPT !.pc = "ret", !.ret = p.res]

Call ==
    /\ call.pc = "idle"
    /\ \E rq \in Requests : call' = call_begin(call, rq)
    /\ UNCHANGED <<api, call2>>

\* ------------------------------------------------------------ Api::api_call
\* The prefix check handing on the remainder as sliced, not normalized.
check_prefix_keeps_separator(n, rest_path) ==
    IF n.prefix.some
    THEN IF starts_with(rest_path, n.prefix.v)
         THEN [ok |-> TRUE, rest_path |-> slice_from(rest_path, Len(n.prefix.v))]
         ELSE [ok |-> FALSE, rest_path |-> rest_path]
    ELSE [ok |-> TRUE, rest_path |-> rest_path]

\* The prefix check: [ok, rest_path].
check_prefix(n, rest_path) ==
    IF n.prefix.some
    THEN IF starts_with(rest_path, n.prefix.v)
         THEN [ok |-> TRUE, rest_path |-> normalize(slice_from(rest_path, Len(n.prefix.v)))]
         ELSE [ok |-> FALSE, rest_path |-> rest_path]
    ELSE [ok |-> TRUE, rest_path |-> rest_path]

\* A listed accept entry decodes to the configured vendor and version.
vendor_matches(v, qual) ==
    LET m == from_vendor(qual)
    IN  /\ m.some
        /\ m.media.vendor = v.arg
        /\ m.media.version.some
        /\ m.media.version.v = v.version

\* The scan of the accept header: the first matching entry's media, or None.
matched_media(v, quals) ==
    LET hits == {i \in 1..Len(quals) : vendor_matches(v, quals[i])}
    IN  IF hits = {} THEN [some |-> FALSE, media |-> MediaDefault]
        ELSE [some |-> TRUE,
              media |-> from_vendor(
                  quals[CHOOSE i \in hits : \A j \in hits : i <= j]).media]

NoMedia == [some |-> FALSE, media |-> MediaDefault]

\* The version check comparing the parameter's text whatever its JSON type.
check_version_any_type(n, rest_path, params, rq) ==
    LET v == n.version
    IN  IF ~v.some THEN [ok |-> TRUE, rest_path |-> rest_path, media |-> NoMedia]
        ELSE IF v.versioning = "Path"
        THEN IF starts_with(rest_path, v.version)
             THEN [ok |-> TRUE,
                   rest_path |-> normalize(slice_from(rest_path, Len(v.version))),
                   media |-> NoMedia]
             ELSE [ok |-> FALSE, rest_path |-> rest_path, media |-> NoMedia]
        ELSE IF v.versioning = "Param"
        THEN [ok |-> /\ v.arg \in DOMAIN params
                     /\ params[v.arg].v = v.version,
              rest_path |-> rest_path, media |-> NoMedia]
        ELSE IF rq.accept.some
        THEN [ok |-> matched_media(v, rq.accept.quals).some,
              rest_path |-> rest_path,
              media |-> matched_media(v, rq.accept.quals)]
        ELSE [ok |-> FALSE, rest_path |-> rest_path, media |-> NoMedia]

\* The version check: [ok, rest_path, media], media being the local
\* `media: Option<Media>` that only header versioning sets.
check_version(n, rest_path, params, rq) ==
    LET v == n.version
    IN  IF ~v.some THEN [ok |-> TRUE, rest_path |-> rest_path, media |-> NoMedia]
        ELSE IF v.versioning = "Path"
        THEN IF starts_with(rest_path, v.version)
             THEN [ok |-> TRUE,
                   rest_path |-> normalize(slice_from(rest_path, Len(v.version))),
                   media |-> NoMedia]
             ELSE [ok |-> FALSE, rest_path |-> rest_path, media |-> NoMedia]
        ELSE IF v.versioning = "Param"
        THEN [ok |-> /\ v.arg \in DOMAIN params
                     /\ is_string(params[v.arg])
                     /\ params[v.arg].v = v.version,
              rest_path |-> rest_path, media |-> NoMedia]
        ELSE IF rq.accept.some
        THEN [ok |-> matched_media(v, rq.accept.quals).some,
              rest_path |-> rest_path,
              media |-> matched_media(v, rq.accept.quals)]
        ELSE [ok |-> FALSE, rest_path |-> rest_path, media |-> NoMedia]

\* Nesting::push_node
push_node(info, node) == [info EXCEPT !.parents = Append(@, node)]

\* Api::api_call appending the node before its checks.
Api_api_call_push_first(a, s) ==
    LET node == s.cur.node
        n == a[node]
        s1 == [s EXCEPT !.info = push_node(s.info, node)]
        p == check_prefix(n, s.cur.rest_path)
        v == check_version(n, p.rest_path, s.params, s.req)
        m == extract_media(s.req)
    IN  IF ~p.ok THEN Return(s1, node, Err(NotMatch))
        ELSE IF ~v.ok THEN Return(s1, node, Err(NotMatch))
        ELSE IF ~v.media.some /\ ~m.some THEN Return(s1, node, Err(NotAcceptable))
        ELSE [s1 EXCEPT
                 !.info = IF ~v.media.some THEN [s1.info EXCEPT !.media = m.media]
                          ELSE s1.info,
                 !.frames = Append(@, [node |-> node, rest_path |-> v.rest_path,
                                       idx |-> 1]),
                 !.pc = "handlers",
                 !.trace = Append(@, Ev("pass", node, "", 0, "ok", NoResp))]

\* Api::api_call of node s.cur.node: prefix, version, media, then push_node and
\* the start of call_handlers.
Api_api_call(a, s) ==
    LET node == s.cur.node
        n == a[node]
        p == check_prefix(n, s.cur.rest_path)
        v == check_version(n, p.rest_path, s.params, s.req)
        m == extract_media(s.req)
    IN  IF ~p.ok THEN Return(s, node, Err(NotMatch))
        ELSE IF ~v.ok THEN Return(s, node, Err(NotMatch))
        ELSE IF ~v.media.some /\ ~m.some THEN Return(s, node, Err(NotAcceptable))
        ELSE [s EXCEPT
                 !.info = push_node(
                     IF ~v.media.some THEN [s.info EXCEPT !.media = m.media]
                     ELSE s.info, node),
                 !.frames = Append(@, [node |-> node, rest_path |-> v.rest_path,
                                       idx |-> 1]),
                 !.pc = "handlers",
                 !.trace = Append(@, Ev("pass", node, "", 0, "ok", NoResp))]

ApiApiCall ==
    /\ call.pc = "api_call"
    /\ api[call.cur.node].kind = "api"
    /\ call' = Api_api_call(api, call)
    /\ UNCHANGED <<api, call2>>

\* ------------------------------------------------- Nesting::call_handlers
Top(s) == s.frames[Len(s.frames)]
Pop(frames) == SubSeq(frames, 1, Len(frames) - 1)

\* The loop head: offer the request to the next child, or, the list being
\* exhausted, fail with NotMatch.
call_handlers_next(a, s) ==
    LET f == Top(s)
        hs == a[f.node].handlers
    IN  IF f.idx <= Len(hs)
        THEN [s EXCEPT !.cur = [node |-> hs[f.idx], rest_path |-> f.rest_path],
                       !.pc = "api_call",
                       !.trace = Append(@, Ev("offer", f.node, "", hs[f.idx], "", NoResp)),
                       !.offers = Append(@, [node |-> f.node, child |-> hs[f.idx],
                                             rest_path |-> f.rest_path])]
        ELSE [Return(s, f.node, Err(NotMatch)) EXCEPT !.frames = Pop(s.frames)]

CallHandlersNext ==
    /\ call.pc = "handlers"
    /\ call' = call_handlers_next(api, call)
    /\ UNCHANGED <<api, call2>>

\* A child's error makes the loop go on to the next child.
is_retry(r) == ~r.ok /\ r.err = NotMatch

\* The loop body's match giving up at the first child's NotMatch.
call_handlers_match_no_retry(a, s) ==
    [Return(s, Top(s).node, s.ret) EXCEPT !.frames = Pop(s.frames)]

\* The loop body's match on what the child returned.
call_handlers_match(a, s) ==
    LET f == Top(s)
    IN  IF is_retry(s.ret)
        THEN [s EXCEPT !.frames[Len(s.frames)].idx = f.idx + 1, !.pc = "handlers"]
        ELSE [Return(s, f.node, s.ret) EXCEPT !.frames = Pop(s.frames)]

CallHandlersMatch ==
    /\ call.pc = "ret"
    /\ call.frames # <<>>
    /\ call' = call_handlers_match(api, call)
    /\ UNCHANGED <<api, call2>>

\* ------------------------------------------------------ Endpoint::api_call
\* The endpoint's api_call applying the captures before the method guard.
Endpoint_api_call_captures_first(a, s) ==
    LET node == s.cur.node
        e == a[node]
        m == is_match(e.path, s.cur.rest_path)
        s1 == [s EXCEPT !.params = apply_captures(s.params, m.captures)]
    IN  IF s.req.method # e.method THEN Return(s1, node, Err(NotMatch))
        ELSE IF m.some
        THEN [s1 EXCEPT !.pre_params = s.params,
                        !.captures = m.captures,
                        !.client = [endpoint |-> node, media |-> s.info.media],
                        !.pos = [stage |-> 1, pi |-> 1, ci |-> 1],
                        !.pipe = <<>>,
                        !.pc = "call_decode"]
        ELSE Return(s1, node, Err(NotMatch))

\* The endpoint's api_call without the method guard.
Endpoint_api_call_no_method_guard(a, s) ==
    LET node == s.cur.node
        e == a[node]
        m == is_match(e.path, s.cur.rest_path)
    IN  IF m.some
        THEN [s EXCEPT !.params = apply_captures(s.params, m.captures),
                       !.pre_params = s.params,
                       !.captures = m.captures,
                       !.client = [endpoint |-> node, media |-> s.info.media],
                       !.pos = [stage |-> 1, pi |-> 1, ci |-> 1],
                       !.pipe = <<>>,
                       !.pc = "call_decode"]
        ELSE Return(s, node, Err(NotMatch))

\* Method guard, path match, apply_captures, then the start of call_decode
\* (Client::new with the call context's media).
Endpoint_api_call(a, s) ==
    LET node == s.cur.node
        e == a[node]
        m == is_match(e.path, s.cur.rest_path)
    IN  IF s.req.method # e.method THEN Return(s, node, Err(NotMatch))
        ELSE IF m.some
        THEN [s EXCEPT !.params = apply_captures(s.params, m.captures),
                       !.pre_params = s.params,
                       !.captures = m.captures,
                       !.client = [endpoint |-> node, media |-> s.info.media],
                       !.pos = [stage |-> 1, pi |-> 1, ci |-> 1],
                       !.pipe = <<>>,
                       !.pc = "call_decode"]
        ELSE Return(s, node, Err(NotMatch))

EndpointApiCall ==
    /\ call.pc = "api_call"
    /\ api[call.cur.node].kind = "endpoint"
    /\ call' = Endpoint_api_call(api, call)
    /\ UNCHANGED <<api, call2>>

\* ---------------------------------------------------- Endpoint::call_decode
\* The stages in the order call_decode runs them, validation before after_validation.
DecodeStagesValidationLate ==
    <<"before", "before_validation", "after_validation", "validate", "handler", "after">>

\* The stages in the order call_decode runs them.
DecodeStages ==
    <<"before", "before_validation", "validate", "after_validation", "handler", "after">>

CallbackStages == {"before", "before_validation", "after_validation", "after"}

\* Node::get_before, get_before_validation, get_after_validation, get_after
get_callbacks(n, stage) ==
    CASE stage = "before" -> n.before
      [] stage = "before_validation" -> n.before_validation
      [] stage = "after_validation" -> n.after_validation
      [] stage = "after" -> n.after

\* What a callback or a handler may return: Ok, or an error of its own choice.
CallbackErrors == {UserError, NotMatch}

StageOf(s) == DecodeStages[s.pos.stage]

NextStage(s) == [s EXCEPT !.pos = [stage |-> s.pos.stage + 1, pi |-> 1, ci |-> 1]]

\* An event of the pipeline is recorded in the call's trace and in pipe.
Record(s, e) == [s EXCEPT !.trace = Append(@, e), !.pipe = Append(@, e)]

\* A try!(..) whose error is dropped: the pipeline goes on with the next stage.
FailSwallowed(s, e) == NextStage(s)

\* A try!(..) that failed: call_decode, and with it the endpoint's api_call,
\* returns the error.
Fail(s, e) == Return(s, s.client.endpoint, Err(e))

\* The position of the two nested loops of a callback stage
\* (for parent in info.parents / for cb in cbs): the loops' next step.
\* "invoke" a callback, go on to the "parent" after this one, or leave the "stage".
LoopStep(a, s) ==
    IF s.pos.pi > Len(s.info.parents) THEN "stage"
    ELSE IF s.pos.ci > Len(get_callbacks(a[s.info.parents[s.pos.pi]], StageOf(s)))
    THEN "parent"
    ELSE "invoke"

\* Endpoint::call_callbacks, one callback: it returns Ok or fails.
call_callback(a, s) ==
    LET parent == s.info.parents[s.pos.pi]
        cb == get_callbacks(a[parent], StageOf(s))[s.pos.ci]
    IN  {[Record(s, Ev(StageOf(s), parent, cb, 0, "ok", NoResp))
             EXCEPT !.pos.ci = s.pos.ci + 1]}
        \cup
        {Fail(Record(s, Ev(StageOf(s), parent, cb, 0, e, NoResp)), e) :
             e \in CallbackErrors}

CallCallback ==
    /\ call.pc = "call_decode"
    /\ StageOf(call) \in CallbackStages
    /\ LoopStep(api, call) = "invoke"
    /\ \E t \in call_callback(api, call) : call' = t
    /\ UNCHANGED <<api, call2>>

\* The loops' bookkeeping: the next parent, or the stage is over; past the
\* last stage call_decode returns the client's response.
callback_loop(a, s) ==
    IF LoopStep(a, s) = "parent"
    THEN [s EXCEPT !.pos.pi = s.pos.pi + 1, !.pos.ci = 1]
    ELSE IF s.pos.stage < Len(DecodeStages) THEN NextStage(s)
    ELSE Return(s, s.client.endpoint,
                Ok(Response("handler", s.client.endpoint, "", s.client.media.format)))

CallbackLoop ==
    /\ call.pc = "call_decode"
    /\ StageOf(call) \in CallbackStages
    /\ LoopStep(api, call) # "invoke"
    /\ call' = callback_loop(api, call)
    /\ UNCHANGED <<api, call2>>

\* Endpoint::validate: the schema's process(params) succeeds or fails.
validate(a, s) ==
    IF a[s.client.endpoint].coercer
    THEN {NextStage(Record(s, Ev("validate", s.client.endpoint, "", 0, "ok", NoResp))),
          Fail(Record(s, Ev("validate", s.client.endpoint, "", 0, Validation, NoResp)),
               Validation)}
    ELSE {NextStage(s)}

Validate ==
    /\ call.pc = "call_decode"
    /\ StageOf(call) = "validate"
    /\ \E t \in validate(api, call) : call' = t
    /\ UNCHANGED <<api, call2>>

\* The terminal handler: it returns the client or fails.
handle(a, s) ==
    {NextStage(Record(s, Ev("handler", s.client.endpoint, "", 0, "ok", NoResp)))}
    \cup
    {Fail(Record(s, Ev("handler", s.client.endpoint, "", 0, e, NoResp)), e) :
         e \in CallbackErrors}

Handler ==
    /\ call.pc = "call_decode"
    /\ StageOf(call) = "handler"
    /\ \E t \in handle(api, call) : call' = t
    /\ UNCHANGED <<api, call2>>

\* --------------------------------------------- Api::call, the match; errors
\* Formatter f applied to (err, media): Some(response) or None.
err_formatter(f, list, err, media) ==
    IF f.kind = "respond"
    THEN [some |-> TRUE, resp |-> Response(list, f.id, err, media.format)]
    ELSE [some |-> FALSE, resp |-> NoResp]

\* The match reporting a routing failure whatever the error was.
call_match_loses_error(s) ==
    IF s.ret.ok
    THEN [s EXCEPT !.api_result = s.ret, !.pc = "done",
                   !.result = [ok |-> TRUE, response |-> s.ret.val, error |-> ""]]
    ELSE [s EXCEPT !.api_result = Err(NotMatch), !.pc = "handle_error",
                   !.err_media = extract_media(s.req).media,
                   !.fpos = [list |-> "custom", i |-> 1]]

\* `match api_result`: Ok(resp) is returned; for Err(err), handle_error starts
\* with the media extract_media gives.
call_match(s) ==
    IF s.ret.ok
    THEN [s EXCEPT !.api_result = s.ret, !.pc = "done",
                   !.result = [ok |-> TRUE, response |-> s.ret.val, error |-> ""]]
    ELSE [s EXCEPT !.api_result = s.ret, !.pc = "handle_error",
                   !.err_media = IF extract_media(s.req).some
                                 THEN extract_media(s.req).media ELSE MediaDefault,
                   !.fpos = [list |-> "custom", i |-> 1]]

CallMatch ==
    /\ call.pc = "ret"
    /\ call.frames = <<>>
    /\ call' = call_match(call)
    /\ UNCHANGED <<api, call2>>

FormatterList(a, list) ==
    IF list = "custom" THEN a[Root].error_formatters
    ELSE a[Root].default_error_formatters

\* handle_error trying the default formatters before a custom one's response
\* is returned: a custom response does not end the loops.
handle_error_step_no_return(a, s) ==
    LET fs == FormatterList(a, s.fpos.list)
    IN  IF s.fpos.i > Len(fs)
        THEN IF s.fpos.list = "custom"
             THEN [s EXCEPT !.fpos = [list |-> "default", i |-> 1]]
             ELSE [s EXCEPT !.pc = "unreachable"]
        ELSE LET r == err_formatter(fs[s.fpos.i], s.fpos.list, s.api_result.err,
                                    s.err_media)
                 s1 == [s EXCEPT !.fmts = Append(@, [list |-> s.fpos.list,
                                                     i |-> s.fpos.i,
                                                     some |-> r.some])]
             IN  IF r.some /\ s.fpos.list = "default"
                 THEN [s1 EXCEPT !.pc = "done",
                                 !.result = [ok |-> FALSE, response |-> r.resp,
                                             error |-> s.api_result.err]]
                 ELSE [s1 EXCEPT !.fpos.i = s.fpos.i + 1]

\* Api::handle_error, one turn of its loops: the formatter at fpos is invoked;
\* past the custom list the default list starts; past both, unreachable!().
handle_error_step(a, s) ==
    LET fs == FormatterList(a, s.fpos.list)
    IN  IF s.fpos.i > Len(fs)
        THEN IF s.fpos.list = "custom"
             THEN [s EXCEPT !.fpos = [list |-> "default", i |-> 1]]
             ELSE [s EXCEPT !.pc = "unreachable"]
        ELSE LET r == err_formatter(fs[s.fpos.i], s.fpos.list, s.api_result.err,
                                    s.err_media)
                 s1 == [s EXCEPT !.fmts = Append(@, [list |-> s.fpos.list,
                                                     i |-> s.fpos.i,
                                                     some |-> r.some])]
             IN  IF r.some
                 THEN [s1 EXCEPT !.pc = "done",
                                 !.result = [ok |-> FALSE, response |-> r.resp,
                                             error |-> s.api_result.err]]
                 ELSE [s1 EXCEPT !.fpos.i = s.fpos.i + 1]

HandleError ==
    /\ call.pc = "handle_error"
    /\ call' = handle_error_step(api, call)
    /\ UNCHANGED <<api, call2>>

\* --------------------------------------------------------- specifications
Next ==
    \/ BuildPrefix
    \/ BuildVersion
    \/ BuildErrorFormatter
    \/ Call
    \/ ApiApiCall
    \/ CallHandlersNext
    \/ CallHandlersMatch
    \/ EndpointApiCall
    \/ CallCallback
    \/ CallbackLoop
    \/ Validate
    \/ Handler
    \/ CallMatch
    \/ HandleError

Spec == Init /\ [][Next]_vars

\* Parsing alone: every combination of query string, body type and body.
ParseCall ==
    /\ call.pc = "idle"
    /\ \E rq \in ParseRequests : call' = call_begin(call, rq)
    /\ UNCHANGED <<api, call2>>

InitParse ==
    /\ api = TreeFlat
    /\ call = IdleCall
    /\ call2 = IdleCall

SpecParse == InitParse /\ [][ParseCall]_vars

\* The serving actions: everything `call` does after parse_request.
Serve ==
    \/ ApiApiCall
    \/ CallHandlersNext
    \/ CallHandlersMatch
    \/ EndpointApiCall
    \/ CallCallback
    \/ CallbackLoop
    \/ Validate
    \/ Handler
    \/ CallMatch
    \/ HandleError

\* Parsing followed by the dispatch, on the flat tree.
NextParseCall == ParseCall \/ Serve

SpecParseCall == InitParse /\ [][NextParseCall]_vars

\* ----------------------------------------------- routing: prefix and version
S_1 == <<"1">>
S_0 == <<"0">>
S_ary == <<"a", "r", "y">>
S_v2 == <<"v", "2">>

\* Node 2 has prefix "api" and path version "v1", node 5 the prefix alone.
TreePrefixed ==
    [n \in 1..7 |->
        CASE n = 1 -> Api_nest(Api_new, <<2, 5, 7>>, <<"r_b">>, <<>>, <<>>, <<>>)
          [] n = 2 -> Api_nest(Api_version(Api_prefix(Api_new, S_api), S_v1, "Path", ""),
                               <<3, 4>>, <<"n_b">>, <<>>, <<>>, <<>>)
          [] n = 3 -> Endpoint_build("GET", <<Lit(S_x)>>, FALSE)
          [] n = 4 -> Endpoint_build("GET", <<Lit(S_0), Lit(S_x)>>, FALSE)
          [] n = 5 -> Api_nest(Api_prefix(Api_new, S_api), <<6>>, <<>>, <<>>, <<>>, <<>>)
          [] n = 6 -> Endpoint_build("GET", <<Lit(S_ary), Lit(S_x)>>, FALSE)
          [] n = 7 -> Endpoint_build("POST", <<Cap("id")>>, FALSE)]

\* Node 2 is versioned by the parameter "ver", which must be the string "1".
TreeParam ==
    [n \in 1..4 |->
        CASE n = 1 -> Api_nest(Api_new, <<2, 4>>, <<"r_b">>, <<>>, <<>>, <<>>)
          [] n = 2 -> Api_nest(Api_version(Api_new, S_1, "Param", "ver"), <<3>>,
                               <<"n_b">>, <<>>, <<>>, <<>>)
          [] n = 3 -> Endpoint_build("GET", <<Lit(S_x)>>, FALSE)
          [] n = 4 -> Endpoint_build("POST", <<Lit(S_x)>>, FALSE)]

RouteTrees == {TreePrefixed, TreeParam, TreeHeader}

M_acme == Mime("acme", <<>>, "json")
M_acme_v2 == Mime("acme", S_v2, "json")

RoutePaths ==
    {S_x,
     S_v1 \o <<"/">> \o S_x,
     S_api \o <<"/">> \o S_x,
     S_api \o <<"/">> \o S_v1 \o <<"/">> \o S_x,
     S_api \o <<"/">> \o S_v1 \o <<"/", "/">> \o S_x \o <<"/">>,
     S_api \o S_ary \o <<"/">> \o S_x,
     S_api \o <<"/">> \o S_v1 \o S_0 \o <<"/">> \o S_x}

RouteAccepts ==
    {NoAccept, Accept(<<>>), Accept(<<M_plain>>), Accept(<<M_other_v1>>),
     Accept(<<M_acme, M_acme_v2>>), Accept(<<M_other_v1, M_acme_v1>>)}

RouteQueries ==
    {NoQuery, Query(Obj1("ver", JStr(S_1))), Query(Obj1("ver", JNum(S_1))),
     Query(Obj2("ver", JStr(S_b), "id", JStr(S_q)))}

RouteRequests ==
    {Request(m, p, q, "other", NoBody, acc) :
        m \in Methods, p \in RoutePaths, q \in RouteQueries, acc \in RouteAccepts}

CallRoute ==
    /\ call.pc = "idle"
    /\ \E rq \in RouteRequests : call' = call_begin(call, rq)
    /\ UNCHANGED <<api, call2>>

InitRoute ==
    /\ api \in RouteTrees
    /\ call = IdleCall
    /\ call2 = IdleCall

NextRoute == CallRoute \/ Serve

SpecRoute == InitRoute /\ [][NextRoute]_vars

\* ---------------------------------------------------------- two calls at once
\* What one call does next, as a set of successors of its own state: the
\* step the serving actions take for the call's position.
Steps(a, s) ==
    CASE s.pc = "api_call" ->
             IF a[s.cur.node].kind = "api" THEN {Api_api_call(a, s)}
             ELSE {Endpoint_api_call(a, s)}
      [] s.pc = "handlers" -> {call_handlers_next(a, s)}
      [] s.pc = "ret" ->
             IF s.frames # <<>> THEN {call_handlers_match(a, s)} ELSE {call_match(s)}
      [] s.pc = "call_decode" ->
             IF StageOf(s) \in CallbackStages
             THEN IF LoopStep(a, s) = "invoke" THEN call_callback(a, s)
                  ELSE {callback_loop(a, s)}
             ELSE IF StageOf(s) = "validate" THEN validate(a, s)
             ELSE handle(a, s)
      [] s.pc = "handle_error" -> {handle_error_step(a, s)}
      [] OTHER -> {}

\* Two calls whose params are one map: a step sees the other call's entries.
serve_step_shared_params(a, s, other) ==
    {[t EXCEPT !.params = MergeInto(t.params, other.params)] : t \in Steps(a, s)}

\* A step of one call while another is in flight: `call` takes &self, and
\* params and CallInfo are locals of the call, so the step reads and writes
\* the call's own state only.
serve_step(a, s, other) == Steps(a, s)

ConcTree == TreeParam

\* A call routed through the versioned node, one routed past it with a
\* capture-free endpoint of the root, and one no endpoint accepts.
ConcRequests ==
    {Request("GET", S_x, Query(Obj2("id", JStr(S_q), "ver", JStr(S_1))), "other",
             NoBody, NoAccept),
     Request("POST", S_x, Query(Obj1("ver", JStr(S_b))), "other", NoBody,
             Accept(<<M_other_v1, M_acme_v1>>)),
     Request("GET", S_x, NoQuery, "other", NoBody, Accept(<<M_plain>>))}

ConcCall1 ==
    /\ call.pc = "idle"
    /\ \E rq \in ConcRequests : call' = call_begin(call, rq)
    /\ UNCHANGED <<api, call2>>

ConcCall2 ==
    /\ call2.pc = "idle"
    /\ \E rq \in ConcRequests : call2' = call_begin(call2, rq)
    /\ UNCHANGED <<api, call>>

ConcStep1 ==
    /\ \E t \in serve_step(api, call, call2) : call' = t
    /\ UNCHANGED <<api, call2>>

ConcStep2 ==
    /\ \E t \in serve_step(api, call2, call) : call2' = t
    /\ UNCHANGED <<api, call>>

InitConc ==
    /\ api = ConcTree
    /\ call = IdleCall
    /\ call2 = IdleCall

NextConc == ConcCall1 \/ ConcCall2 \/ ConcStep1 \/ ConcStep2

SpecConc == InitConc /\ [][NextConc]_vars

\* ------------------------------------------------------------------ claims
Last(q) == q[Len(q)]
IsPrefix(p, q) == Len(p) <= Len(q) /\ SubSeq(q, 1, Len(p)) = p
Indices(q) == 1..Len(q)

\* The endpoint's api_call has just returned to its caller.
JustReturned ==
    /\ call.pc = "ret"
    /\ call.trace # <<>>
    /\ Last(call.trace).ev = "return"
    /\ Last(call.trace).node = call.client.endpoint

\* A pipeline is running, or has just returned.
InPipeline == call.pc = "call_decode" \/ JustReturned

PipelineEvents == {"before", "before_validation", "validate", "after_validation",
                   "handler", "after"}

\* The callbacks of one stage over the ancestor stack, root first.
RECURSIVE StageSeq(_, _, _)
StageSeq(a, parents, stage) ==
    IF parents = <<>> THEN <<>>
    ELSE [i \in 1..Len(get_callbacks(a[Head(parents)], stage)) |->
             <<stage, Head(parents), get_callbacks(a[Head(parents)], stage)[i]>>]
         \o StageSeq(a, Tail(parents), stage)

\* The order C1 states for endpoint ep below the ancestor stack `parents`.
ExpectedPipeline(a, ep, parents) ==
    StageSeq(a, parents, "before")
    \o StageSeq(a, parents, "before_validation")
    \o (IF a[ep].coercer THEN <<<<"validate", ep, "">>>> ELSE <<>>)
    \o StageSeq(a, parents, "after_validation")
    \o <<<<"handler", ep, "">>>>
    \o StageSeq(a, parents, "after")

ObservedPipeline == [i \in 1..Len(call.pipe) |->
                        <<call.pipe[i].ev, call.pipe[i].node, call.pipe[i].cb>>]

PipelineSucceeded == JustReturned /\ call.ret.ok

\* C1: the events of a pipeline occur in the order before (A1..An),
\* before_validation (A1..An), validation (if configured), after_validation
\* (A1..An), handler, after (A1..An): what has run so far is an initial part of
\* that order, and a pipeline that succeeded has run all of it.
C1_PipelineOrder ==
    InPipeline =>
        /\ IsPrefix(ObservedPipeline,
                    ExpectedPipeline(api, call.client.endpoint, call.info.parents))
        /\ PipelineSucceeded =>
               ObservedPipeline =
                   ExpectedPipeline(api, call.client.endpoint, call.info.parents)

\* A pipeline below two ancestors, with several callbacks in one stage, succeeded.
C1_Witness ==
    /\ PipelineSucceeded
    /\ Len(call.info.parents) = 2
    /\ Len(call.pipe) >= 8
    /\ \E i \in Indices(call.pipe) : call.pipe[i].ev = "after_validation"

\* C2: a failing callback, validation or handler is the last thing its
\* pipeline executes, and call_decode returns that error: in the call's trace
\* the failing event is followed at once by the endpoint's return of the same
\* error.
C2_ShortCircuit ==
    \A i \in Indices(call.trace) :
        (call.trace[i].ev \in PipelineEvents /\ call.trace[i].res # "ok") =>
            /\ i < Len(call.trace)
            /\ call.trace[i + 1].ev = "return"
            /\ api[call.trace[i + 1].node].kind = "endpoint"
            /\ call.trace[i + 1].res = call.trace[i].res

\* A handler failed below ancestors that registered after callbacks.
C2_Witness ==
    /\ JustReturned
    /\ Last(call.pipe).ev = "handler"
    /\ Last(call.pipe).res = UserError
    /\ call.ret.err = UserError
    /\ \E n \in Indices(call.info.parents) : api[call.info.parents[n]].after # <<>>

\* An api_call returned an error that is not NotMatch.
HardFailure(e) == e.ev = "return" /\ e.res \notin {"ok", NotMatch}

\* C3: once a child has failed with an error other than NotMatch, nothing
\* more is offered or run: every later event is an enclosing api_call
\* returning that same error, and `call` reports exactly that error; and a
\* parent offers a further child only right after a NotMatch.
C3_HardErrorPropagates ==
    /\ \A i \in Indices(call.trace) :
           HardFailure(call.trace[i]) =>
               /\ \A j \in (i + 1)..Len(call.trace) :
                      /\ call.trace[j].ev = "return"
                      /\ call.trace[j].res = call.trace[i].res
               /\ call.pc = "done" =>
                      ~call.result.ok /\ call.result.error = call.trace[i].res
    /\ \A j \in 2..Len(call.trace) :
           (call.trace[j].ev = "offer" /\ call.trace[j - 1].ev = "return") =>
               call.trace[j - 1].res = NotMatch

\* A child of a nested node, with a sibling registered after it, failed with
\* a Validation error and the call ended with that error.
C3_Witness ==
    /\ call.pc = "done"
    /\ call.result.error = Validation
    /\ \E i \in Indices(call.trace) :
           /\ call.trace[i].ev = "offer"
           /\ call.trace[i].node # Root
           /\ call.trace[i].child # Last(api[call.trace[i].node].handlers)
           /\ \E j \in Indices(call.trace) :
                  /\ j > i
                  /\ HardFailure(call.trace[j])
                  /\ call.trace[j].node = call.trace[i].child

\* The children node n has offered the request to, in order.
OffersOf(n) ==
    LET sel == SelectSeq(call.trace, LAMBDA e : e.ev = "offer" /\ e.node = n)
    IN  [i \in 1..Len(sel) |-> sel[i].child]

Passed(n) == \E i \in Indices(call.trace) :
                 call.trace[i].ev = "pass" /\ call.trace[i].node = n
Returned(n) == \E i \in Indices(call.trace) :
                   call.trace[i].ev = "return" /\ call.trace[i].node = n
ReturnOf(n) == call.trace[CHOOSE i \in Indices(call.trace) :
                              call.trace[i].ev = "return" /\ call.trace[i].node = n]

\* C4: a node offers its children the request in registration order, and only
\* after passing its checks; a child is offered only when every child before
\* it failed with NotMatch; the node returns the first successful child's
\* response; when every child failed with NotMatch (or there is none) all of
\* them were offered and the node fails with NotMatch.
C4_ChildrenInOrder ==
    \A n \in DOMAIN api :
        api[n].kind = "api" =>
            LET o == OffersOf(n)
            IN  /\ ~Passed(n) => o = <<>>
                /\ IsPrefix(o, api[n].handlers)
                /\ \A k \in 1..(Len(o) - 1) :
                       Returned(o[k]) /\ ReturnOf(o[k]).res = NotMatch
                /\ (Passed(n) /\ Returned(n)) =>
                       /\ \A k \in Indices(o) : Returned(o[k])
                       /\ ReturnOf(n).res = "ok" <=>
                              (o # <<>> /\ ReturnOf(Last(o)).res = "ok")
                       /\ ReturnOf(n).res = "ok" =>
                              ReturnOf(n).val = ReturnOf(Last(o)).val
                       /\ (\A k \in Indices(o) : ReturnOf(o[k]).res = NotMatch) =>
                              (o = api[n].handlers /\ ReturnOf(n).res = NotMatch)

\* A node returned its second child's response after its childless first
\* child failed with NotMatch, a third child being registered.
C4_Witness ==
    \E n \in DOMAIN api :
        /\ api[n].kind = "api"
        /\ Returned(n)
        /\ ReturnOf(n).res = "ok"
        /\ Len(OffersOf(n)) = 2
        /\ Len(api[n].handlers) = 3
        /\ api[OffersOf(n)[1]].kind = "api"
        /\ api[OffersOf(n)[1]].handlers = <<>>
        /\ ReturnOf(OffersOf(n)[1]).res = NotMatch

\* C5: within one call at most one endpoint's terminal handler is invoked.
C5_SingleHandler ==
    Cardinality({i \in Indices(call.trace) : call.trace[i].ev = "handler"}) <= 1

\* The formatters in the order handle_error is to try them.
ExpectedFormatters ==
    [i \in 1..Len(api[Root].error_formatters) |-> <<"custom", i>>]
    \o [i \in 1..Len(api[Root].default_error_formatters) |-> <<"default", i>>]

InvokedFormatters == [i \in 1..Len(call.fmts) |-> <<call.fmts[i].list, call.fmts[i].i>>]

\* C6: handle_error invokes the custom formatters in registration order, then
\* the default ones, a default one only after every custom one declined;
\* every formatter invoked before the last one declined, and the response
\* returned is the one the last invoked formatter produced.
C6_FormatterOrder ==
    /\ IsPrefix(InvokedFormatters, ExpectedFormatters)
    /\ \A i \in 1..(Len(call.fmts) - 1) : ~call.fmts[i].some
    /\ (call.pc = "done" /\ ~call.result.ok) =>
           /\ call.fmts # <<>>
           /\ Last(call.fmts).some
           /\ call.result.response.by = Last(call.fmts).list
           /\ call.result.response.id =
                  FormatterList(api, Last(call.fmts).list)[Last(call.fmts).i].id

\* The first custom formatter declined and the second one's response was
\* returned; no default formatter was invoked.
C6_Witness ==
    /\ call.pc = "done"
    /\ Len(call.fmts) = 2
    /\ ~call.fmts[1].some
    /\ call.result.response.by = "custom"
    /\ call.result.response.id = 2

\* C7: every Api has a non-empty default-formatter list, and handle_error
\* never runs past both lists (unreachable!() is not reached).
C7_AlwaysAResponse ==
    /\ \A n \in DOMAIN api :
           api[n].kind = "api" => api[n].default_error_formatters # <<>>
    /\ call.pc # "unreachable"

\* Every registered custom formatter declined and the default formatter
\* produced the response.
C7_Witness ==
    /\ call.pc = "done"
    /\ api[Root].error_formatters # <<>>
    /\ Len(call.fmts) = Len(api[Root].error_formatters) + 1
    /\ call.result.response.by = "default"
    /\ call.result.error = UserError

\* The return event of the top-level api_call.
Dispatched == Returned(Root)

\* C8: `call` returns Ok(response) exactly when parse_request and the
\* dispatch both succeeded, with the dispatch's response; otherwise it returns
\* the error of the step that failed, unchanged, together with the response a
\* formatter rendered from that error.
C8_CallResult ==
    call.pc = "done" =>
        /\ call.result.ok <=>
               (call.parse_result.ok /\ Dispatched /\ ReturnOf(Root).res = "ok")
        /\ call.result.ok => call.result.response = ReturnOf(Root).val
        /\ ~call.result.ok =>
               /\ call.result.error =
                      IF ~call.parse_result.ok THEN call.parse_result.err
                      ELSE ReturnOf(Root).res
               /\ call.result.response.by \in {"custom", "default"}
               /\ call.result.response.err = call.result.error
        /\ ~call.parse_result.ok => ~Dispatched

\* A parse failure was returned with a rendered response.
C8_Witness ==
    /\ call.pc = "done"
    /\ ~call.result.ok
    /\ call.result.error = QueryString
    /\ call.result.response.err = QueryString

\* The object parse_request is to merge from the query string, and from the
\* body as its declared type has it parsed.
QueryObject(rq) ==
    IF rq.query.some /\ rq.query.ok THEN rq.query.obj ELSE EmptyObject

BodyObject(rq) ==
    IF rq.body.read # "ok" \/ rq.body.empty THEN EmptyObject
    ELSE IF rq.body_type = "json" /\ rq.body.json.ok /\ rq.body.json.isobj
    THEN rq.body.json.obj
    ELSE IF rq.body_type = "urlencoded" /\ rq.body.form.ok
    THEN rq.body.form.obj
    ELSE EmptyObject

\* C9: after parse_request succeeded, params holds exactly the keys of the
\* query string and of the parsed body, a key of the query string with the
\* query string's value (also when the body has the key), a key of the body
\* alone with the body's value.
C9_QueryWins ==
    (call.pc # "idle" /\ call.parse_result.ok) =>
        /\ DOMAIN call.params =
               DOMAIN QueryObject(call.req) \cup DOMAIN BodyObject(call.req)
        /\ \A k \in DOMAIN QueryObject(call.req) :
               call.params[k] = QueryObject(call.req)[k]
        /\ \A k \in DOMAIN BodyObject(call.req) \ DOMAIN QueryObject(call.req) :
               call.params[k] = BodyObject(call.req)[k]

\* Query string and body share a key with different values, and each has a
\* key of its own.
C9_Witness ==
    /\ call.pc # "idle"
    /\ call.parse_result.ok
    /\ \E k \in DOMAIN QueryObject(call.req) \cap DOMAIN BodyObject(call.req) :
           QueryObject(call.req)[k] # BodyObject(call.req)[k]
    /\ DOMAIN QueryObject(call.req) \ DOMAIN BodyObject(call.req) # {}
    /\ DOMAIN BodyObject(call.req) \ DOMAIN QueryObject(call.req) # {}

\* The endpoint whose api_call is about to run matches method and path.
EndpointMatches ==
    /\ call.pc = "api_call"
    /\ api[call.cur.node].kind = "endpoint"
    /\ call.req.method = api[call.cur.node].method
    /\ is_match(api[call.cur.node].path, call.cur.rest_path).some

\* While a pipeline runs, params is what the path match found plus the
\* captures of the keys that were absent.
C10_ParamsInPipeline ==
    InPipeline =>
        /\ DOMAIN call.params = DOMAIN call.pre_params \cup DOMAIN call.captures
        /\ \A k \in DOMAIN call.pre_params : call.params[k] = call.pre_params[k]
        /\ \A k \in DOMAIN call.captures \ DOMAIN call.pre_params :
               call.params[k] = call.captures[k]

\* After parsing, params changes only in the api_call of an endpoint whose
\* method and path match.
C10_OnlyOnMatch ==
    (call.pc # "idle" /\ call'.params # call.params) => EndpointMatches

Received(s, n) ==
    IF n = Root THEN s.req.path
    ELSE s.offers[CHOOSE i \in Indices(s.offers) : s.offers[i].child = n].rest_path

WasCalled(s, n) ==
    n = Root \/ \E i \in Indices(s.offers) : s.offers[i].child = n

\* The Api node whose api_call is about to run.
AtApi(n) ==
    /\ call.pc = "api_call"
    /\ call.cur.node = n
    /\ api[n].kind = "api"

HasPrefixAndPathVersion(n) ==
    /\ api[n].kind = "api"
    /\ api[n].prefix.some
    /\ api[n].version.some
    /\ api[n].version.versioning = "Path"

\* P/V/ for the prefix P and version V of node n.
PrefixVersionSlash(n) == api[n].prefix.v \o <<"/">> \o api[n].version.version \o <<"/">>

\* path is P/V/rest for some rest.
HasFormPV(n, path) == starts_with(path, PrefixVersionSlash(n))
RestPV(n, path) == slice_from(path, Len(PrefixVersionSlash(n)))

\* path does not start with P, or what is left after P does not start with V.
LacksPrefixOrVersion(n, path) ==
    \/ ~starts_with(path, api[n].prefix.v)
    \/ ~starts_with(normalize(slice_from(path, Len(api[n].prefix.v))),
                    api[n].version.version)

\* The api_call of a node with prefix and path version: P/V/rest passes and
\* the children will be offered normalize(rest); a path lacking P or V fails
\* with NotMatch and nothing is offered.
C11_Step ==
    \A n \in DOMAIN api :
        (AtApi(n) /\ HasPrefixAndPathVersion(n)) =>
            /\ HasFormPV(n, call.cur.rest_path) =>
                   /\ call'.pc = "handlers"
                   /\ Top(call').node = n
                   /\ Top(call').rest_path = normalize(RestPV(n, call.cur.rest_path))
            /\ LacksPrefixOrVersion(n, call.cur.rest_path) =>
                   /\ call'.pc = "ret"
                   /\ call'.ret = Err(NotMatch)
                   /\ call'.offers = call.offers
                   /\ call'.frames = call.frames

\* What a node with prefix and path version offered, it offered for a path
\* with P and V, and for P/V/rest it offered exactly normalize(rest).
C11_Offers ==
    \A i \in Indices(call.offers) :
        LET n == call.offers[i].node
        IN  HasPrefixAndPathVersion(n) =>
                /\ ~LacksPrefixOrVersion(n, Received(call, n))
                /\ HasFormPV(n, Received(call, n)) =>
                       call.offers[i].rest_path =
                           normalize(RestPV(n, Received(call, n)))

\* C11: for a node with prefix P and path version V, a path P/V/rest passes
\* both checks and the children are offered exactly rest, normalized; a path
\* that does not start with P, or whose remainder after P does not start with
\* V, makes the node fail with NotMatch without offering any child.
C11_PrefixThenVersion == [](C11_Offers) /\ [][C11_Step]_vars

\* A nested node with prefix and path version offered a child the rest of a
\* path P/V/rest whose rest needed normalizing.
C11_Witness ==
    \E i \in Indices(call.offers) :
        LET n == call.offers[i].node
        IN  /\ HasPrefixAndPathVersion(n)
            /\ HasFormPV(n, Received(call, n))
            /\ RestPV(n, Received(call, n)) # call.offers[i].rest_path
            /\ call.offers[i].rest_path = S_x

\* The node of the tree whose child n is.
TreeParent(n) == CHOOSE m \in DOMAIN api :
                     /\ api[m].kind = "api"
                     /\ \E i \in Indices(api[m].handlers) : api[m].handlers[i] = n

HeaderVersioned(n) ==
    /\ api[n].kind = "api"
    /\ api[n].version.some
    /\ api[n].version.versioning = "AcceptHeader"

\* The listed entry decodes to the vendor and version node n is configured with.
DecodesTo(n, qual) ==
    /\ from_vendor(qual).some
    /\ from_vendor(qual).media.vendor = api[n].version.arg
    /\ from_vendor(qual).media.version = SomeStr(api[n].version.version)

\* The positions of the accept header's entries that match node n.
Candidates(n, rq) ==
    {i \in Indices(rq.accept.quals) : rq.accept.some /\ DecodesTo(n, rq.accept.quals[i])}

FirstCandidate(n, rq) ==
    CHOOSE k \in Candidates(n, rq) : \A j \in Candidates(n, rq) : k <= j

\* C12: under a header-versioned node, with the first matching accept entry
\* at position k, the media the call context holds and the endpoint's client
\* observes is the decoded media of entry k.
C12_NegotiatedMedia ==
    (/\ InPipeline
     /\ HeaderVersioned(TreeParent(call.client.endpoint))
     /\ Candidates(TreeParent(call.client.endpoint), call.req) # {})
    => LET k == FirstCandidate(TreeParent(call.client.endpoint), call.req)
       IN  /\ call.info.media = from_vendor(call.req.accept.quals[k]).media
           /\ call.client.media = from_vendor(call.req.accept.quals[k]).media

ParamVersioned(n) ==
    /\ api[n].kind = "api"
    /\ api[n].version.some
    /\ api[n].version.versioning = "Param"

\* The version check of node n as the claim words it, on the params and the
\* request of call s.
VersionSatisfied(n, s) ==
    IF ParamVersioned(n)
    THEN /\ api[n].version.arg \in DOMAIN s.params
         /\ s.params[api[n].version.arg].t = "str"
         /\ s.params[api[n].version.arg].v = api[n].version.version
    ELSE /\ s.req.accept.some
         /\ \E i \in Indices(s.req.accept.quals) : DecodesTo(n, s.req.accept.quals[i])

\* The api_call of a node versioned by parameter or header goes on to its
\* children only with the version check satisfied, and otherwise returns
\* NotMatch with nothing offered.
C13_Step ==
    \A n \in DOMAIN api :
        (AtApi(n) /\ (ParamVersioned(n) \/ HeaderVersioned(n))) =>
            /\ call'.pc = "handlers" => VersionSatisfied(n, call)
            /\ ~VersionSatisfied(n, call) =>
                   /\ call'.pc = "ret"
                   /\ call'.ret = Err(NotMatch)
                   /\ call'.offers = call.offers
                   /\ call'.frames = call.frames

\* Whatever such a node offered, it offered with its version check satisfied.
C13_Offers ==
    \A i \in Indices(call.offers) :
        LET n == call.offers[i].node
        IN  (ParamVersioned(n) \/ HeaderVersioned(n)) => VersionSatisfied(n, call)

\* C13: a node versioned by parameter or by header offers the request to its
\* children only if the version check is satisfied (parameter present, a
\* string, equal to the version; header present with a matching entry); in
\* every other case it fails with NotMatch and no child is invoked.
C13_VersionGate == [](C13_Offers) /\ [][C13_Step]_vars

\* A parameter-versioned node has failed with NotMatch on a parameter that
\* has the version's text but is no string.
C13_Witness ==
    \E n \in DOMAIN api :
        /\ ParamVersioned(n)
        /\ Returned(n)
        /\ ReturnOf(n).res = NotMatch
        /\ OffersOf(n) = <<>>
        /\ api[n].version.arg \in DOMAIN call.params
        /\ call.params[api[n].version.arg] = JNum(api[n].version.version)

\* --------------------------------------------- claims on the method guard
\* The offers made to endpoints whose path pattern matches what was offered.
PathMatchingOffers ==
    {i \in Indices(call.offers) :
        /\ api[call.offers[i].child].kind = "endpoint"
        /\ is_match(api[call.offers[i].child].path, call.offers[i].rest_path).some}

\* Endpoints matched the path, and none of them has the request's method.
MethodMismatch ==
    /\ PathMatchingOffers # {}
    /\ \A i \in PathMatchingOffers :
           api[call.offers[i].child].method # call.req.method

NoPipelineEvent == \A i \in Indices(call.trace) : call.trace[i].ev \notin PipelineEvents

\* The custom formatters of the top-level Api that produce a response.
Responding == {i \in Indices(api[Root].error_formatters) :
                  api[Root].error_formatters[i].kind = "respond"}

\* An endpoint called with another method than its own returns NotMatch
\* with params and the path-match state as they were.
C14_Step ==
    (/\ call.pc = "api_call"
     /\ api[call.cur.node].kind = "endpoint"
     /\ api[call.cur.node].method # call.req.method)
    => /\ call'.pc = "ret"
       /\ call'.ret = Err(NotMatch)
       /\ call'.params = call.params
       /\ call'.captures = call.captures
       /\ call'.pre_params = call.pre_params
       /\ call'.pipe = call.pipe

\* The request reaches no callback and no handler, every endpoint that was
\* tried returned NotMatch, and `call` neither panics nor runs into
\* unreachable!().
C14_NoPipeline ==
    MethodMismatch =>
        /\ NoPipelineEvent
        /\ \A i \in PathMatchingOffers :
               Returned(call.offers[i].child) =>
                   ReturnOf(call.offers[i].child).res = NotMatch
        /\ call.pc \notin {"panic", "unreachable"}
        /\ call.pc = "done" => (~call.result.ok /\ call.result.error = NotMatch)

\* C14 as stated: a request whose method differs from the method of every
\* endpoint whose path matches reaches no handler or callback, each such
\* endpoint fails with NotMatch before the path match and before touching
\* params, and `call` returns NotMatch with a response rendered by the default
\* formatter, without panic or unreachable!().
C14_DefaultRenders ==
    /\ [](C14_NoPipeline)
    /\ [][C14_Step]_vars
    /\ []((MethodMismatch /\ call.pc = "done") => call.result.response.by = "default")

\* C14, amended: as above, the response being rendered by the first custom
\* formatter of the top-level Api that produces one, and by the default
\* formatter when there is none.
C14_MethodGuard ==
    /\ [](C14_NoPipeline)
    /\ [][C14_Step]_vars
    /\ []((MethodMismatch /\ call.pc = "done") =>
              IF Responding = {}
              THEN call.result.response.by = "default"
              ELSE /\ call.result.response.by = "custom"
                   /\ call.result.response.id =
                          CHOOSE i \in Responding : \A j \in Responding : i <= j)

\* A call is over whose method no path-matching endpoint has; the custom
\* formatter declined and the default formatter rendered the NotMatch.
C14_Witness ==
    /\ MethodMismatch
    /\ call.pc = "done"
    /\ api[Root].error_formatters # <<>>
    /\ call.result.error = NotMatch
    /\ call.result.response.by = "default"

\* ---------------------------------------------- claims on concurrent calls
\* Every state a call passes through when it runs alone from state s.
RECURSIVE Reach(_, _)
Reach(a, s) == {s} \cup UNION {Reach(a, t) : t \in Steps(a, s)}

\* The states of a call of request rq that runs alone.
Alone(a, rq) == Reach(a, call_begin(IdleCall, rq))

\* A call that is over ended in a state it also ends in alone: its result,
\* its params, its call context (media, ancestor stack) and what it ran.
C15_AsAlone ==
    (call.pc = "done" /\ call2.pc = "done") =>
        /\ call \in Alone(api, call.req)
        /\ call2 \in Alone(api, call2.req)

\* Every step a call takes is a step it takes alone from the state it is in,
\* and leaves the configuration as it is.
C15_Step ==
    /\ api' = api
    /\ call' # call =>
           IF call.pc = "idle" THEN call' = call_begin(IdleCall, call'.req)
           ELSE call' \in Steps(api, call)
    /\ call2' # call2 =>
           IF call2.pc = "idle" THEN call2' = call_begin(IdleCall, call2'.req)
           ELSE call2' \in Steps(api, call2)

BodyErrors == {BodyInvalidRequestBody, BodyInvalidUtf8, BodyInvalidJson,
               BodyInvalidEncoded}

InLog(x) == \E i \in Indices(call.parse_log) : call.parse_log[i] = x

MalformedQuery(rq) == rq.query.some /\ ~rq.query.ok

\* The body is one parse_request reads, and reading or decoding it fails.
BadBody(rq) ==
    \/ /\ rq.body_type \in {"json", "urlencoded"}
       /\ rq.body.read # "ok"
    \/ /\ rq.body_type = "json"
       /\ rq.body.read = "ok" /\ ~rq.body.empty /\ ~rq.body.json.ok
    \/ /\ rq.body_type = "urlencoded"
       /\ rq.body.read = "ok" /\ ~rq.body.empty /\ ~rq.body.form.ok

ParseFailed == call.pc \notin {"idle", "panic"} /\ ~call.parse_result.ok

\* C16: when parse_request fails (malformed query string: QueryString;
\* unreadable body, invalid UTF-8, invalid JSON or invalid form encoding: Body)
\* `call` dispatches nothing, no node check, endpoint match, callback or
\* handler runs, and the parse error is the error returned; a malformed query
\* string fails before the body is read; and the body is parsed as JSON or as
\* form data, never both.
C16_ParseFailureStops ==
    call.pc # "idle" =>
        /\ MalformedQuery(call.req) =>
               /\ ParseFailed
               /\ call.parse_result.err = QueryString
               /\ ~InLog("body")
        /\ (~MalformedQuery(call.req) /\ BadBody(call.req)) =>
               /\ ParseFailed
               /\ call.parse_result.err \in BodyErrors
        /\ ParseFailed =>
               /\ MalformedQuery(call.req) \/ BadBody(call.req)
               /\ call.trace = <<>>
               /\ call.offers = <<>>
               /\ call.frames = <<>>
               /\ call.pipe = <<>>
               /\ call.info = CallInfo_new
               /\ call.pc = "done" =>
                      /\ ~call.result.ok
                      /\ call.result.error = call.parse_result.err
        /\ ~(InLog("json") /\ InLog("form"))

\* A call is over that failed on its query string while a non-empty JSON
\* body was waiting to be read.
C16_Witness ==
    /\ call.pc = "done"
    /\ MalformedQuery(call.req)
    /\ call.req.body_type = "json"
    /\ call.req.body.read = "ok"
    /\ ~call.req.body.empty
    /\ call.result.error = QueryString
    /\ call.parse_log = <<"query">>

\* --------------------------------------------- claims on the call context
\* The nodes on the tree path from the top-level Api down to node n.
RECURSIVE TreePath(_)
TreePath(n) == IF n = Root THEN <<Root>> ELSE Append(TreePath(TreeParent(n)), n)

\* C17: whenever an endpoint's pipeline runs, the ancestor stack of the call
\* context is exactly the tree path from the top-level node to the endpoint's
\* parent, root first and without duplicates; a nested node that passed and
\* whose children all failed with NotMatch is not on it.
C17_AncestorStack ==
    InPipeline => call.info.parents = TreePath(TreeParent(call.client.endpoint))

\* The prefix check of node n on path, and what it leaves of the path.
PrefixOk(n, path) == ~api[n].prefix.some \/ starts_with(path, api[n].prefix.v)
AfterPrefix(n, path) ==
    IF api[n].prefix.some THEN normalize(slice_from(path, Len(api[n].prefix.v)))
    ELSE path

\* The version check of node n for call s about to run n's api_call.
VersionOk(n, s) ==
    \/ ~api[n].version.some
    \/ /\ api[n].version.some
       /\ api[n].version.versioning = "Path"
       /\ starts_with(AfterPrefix(n, s.cur.rest_path), api[n].version.version)
    \/ /\ ParamVersioned(n) \/ HeaderVersioned(n)
       /\ VersionSatisfied(n, s)

\* An api_call of a node whose prefix or version check fails returns NotMatch
\* with call context and params as they were; the ancestor stack grows only
\* by a node whose checks passed, by that node, on its way to its children.
C18_Step ==
    \A n \in DOMAIN api :
        AtApi(n) =>
            /\ (~PrefixOk(n, call.cur.rest_path) \/ ~VersionOk(n, call)) =>
                   /\ call'.pc = "ret"
                   /\ call'.ret = Err(NotMatch)
                   /\ call'.info = call.info
                   /\ call'.params = call.params
            /\ call'.info.parents # call.info.parents =>
                   /\ PrefixOk(n, call.cur.rest_path)
                   /\ VersionOk(n, call)
                   /\ call'.info.parents = Append(call.info.parents, n)
                   /\ call'.pc = "handlers"

\* No step but a node's api_call changes the ancestor stack of a call.
C18_OnlyApiCall ==
    (call.pc # "idle" /\ call'.info.parents # call.info.parents) =>
        \E n \in DOMAIN api : AtApi(n)

\* C18: a node whose prefix or version check fails returns NotMatch without
\* having appended itself to the ancestor stack, changed the negotiated media
\* or modified params; a node is appended only after its checks have passed.
C18_FailedNodeLeavesNoTrace ==
    /\ [][C18_Step /\ C18_OnlyApiCall]_vars
    /\ [](\A i \in Indices(call.info.parents) : Passed(call.info.parents[i]))

\* A nested node has just failed its checks, below a top-level node that had
\* negotiated a media other than the default, with params from the query.
C18_Witness ==
    /\ call.pc = "ret"
    /\ call.trace # <<>>
    /\ Last(call.trace).ev = "return"
    /\ api[Last(call.trace).node].kind = "api"
    /\ ~Passed(Last(call.trace).node)
    /\ call.info.parents = <<Root>>
    /\ call.info.media # MediaDefault
    /\ call.params # EmptyObject

\* The media the claim says negotiation yields for request rq.
FirstPreferenceOrDefault(rq) ==
    IF rq.accept.some /\ Len(rq.accept.quals) > 0
    THEN from_mime(rq.accept.quals[1])
    ELSE MediaDefault

\* C19: extract_media yields a media for every request, the first accept
\* preference decoded when there is one and the default otherwise; no api_call
\* returns NotAcceptable; and the media `call` hands to handle_error is that
\* extracted media.
C19_MediaAlways ==
    call.pc # "idle" =>
        /\ extract_media(call.req).some
        /\ extract_media(call.req).media = FirstPreferenceOrDefault(call.req)
        /\ \A i \in Indices(call.trace) : call.trace[i].res # NotAcceptable
        /\ call.ret.err # NotAcceptable
        /\ call.pc = "handle_error" =>
               call.err_media = FirstPreferenceOrDefault(call.req)
        /\ (call.pc = "done" /\ ~call.result.ok) =>
               /\ call.result.error # NotAcceptable
               /\ call.err_media = FirstPreferenceOrDefault(call.req)
               /\ call.result.response.fmt = FirstPreferenceOrDefault(call.req).format

\* A failed call of a request with an empty accept header has been rendered
\* for the default media.
C19_Witness ==
    /\ call.pc = "done"
    /\ ~call.result.ok
    /\ call.req.accept.some
    /\ call.req.accept.quals = <<>>
    /\ Passed(Root)
    /\ call.err_media = MediaDefault

\* ------------------------------------------- claims on segment boundaries
IsSuffix(p, q) == Len(p) <= Len(q) /\ SubSeq(q, Len(q) - Len(p) + 1, Len(q)) = p

PathVersioned(n) ==
    /\ api[n].kind = "api"
    /\ api[n].version.some
    /\ api[n].version.versioning = "Path"

\* C20: prefix and path-version checks accept whole leading segments only:
\* whatever a node with a prefix P (or path version V) offers its children,
\* it offers for a path whose leading segments are those of P (then V), and
\* the remainder offered is made of whole segments of that path.
C20_WholeSegments ==
    \A i \in Indices(call.offers) :
        LET n == call.offers[i].node
            path == Received(call, n)
        IN  /\ api[n].prefix.some =>
                   IsPrefix(Segments(api[n].prefix.v), Segments(path))
            /\ PathVersioned(n) =>
                   IsPrefix(Segments(api[n].version.version),
                            Segments(AfterPrefix(n, path)))
            /\ (api[n].prefix.some \/ PathVersioned(n)) =>
                   IsSuffix(Segments(call.offers[i].rest_path), Segments(path))

====
